---------------------------- MODULE Spec2Model ----------------------------
(***************************************************************************)
(* ArduPilot manager (companion-docker, core/services/ardupilot_manager):  *)
(* the board start-up sequence of ArduPilotManager.run and the endpoint    *)
(* reconciliation of add_new_endpoints / remove_endpoints against the      *)
(* MAVLink proxy (mavlink_proxy.Manager) and the settings file (Settings). *)
(*                                                                         *)
(* The proxy, the settings store, the board detector and the Endpoint      *)
(* class are collaborators whose code is outside src/: they are modelled   *)
(* from their interface in spec.md (section 2 and 3). Every collaborator   *)
(* call that the interface gives an Error result may fail at any time.     *)
(***************************************************************************)
EXTENDS Integers, Sequences, FiniteSets, TLC

(***************************************************************************)
(* Bounds of the model.                                                    *)
(***************************************************************************)
\* the detector returns an empty result at most this many times in a row
MaxEmptyRounds == 2
\* the detector returns at most this many candidates
MaxBoards == 2
\* the server takes at most this many requests that may overlap
MaxOverlapping == 2

(***************************************************************************)
(* Program constants.                                                      *)
(***************************************************************************)
NavigatorMasterPort == 8852
SerialBaudrate == 115200
GcsPort == 14550
Mavlink2RestPort == 14000

(***************************************************************************)
(* Endpoint (mavlink_proxy.Endpoint): built positionally, as in            *)
(*   Endpoint("Master", app_name, "serial", device, 115200, protected=True)*)
(* An endpoint is the tuple of its attributes; equality is equality of     *)
(* all attributes.                                                         *)
(***************************************************************************)
Endpoint(name, owner, connection_type, place, argument, protected, persistent) ==
    <<name, owner, connection_type, place, argument, protected, persistent>>

Name(e) == e[1]
ConnectionType(e) == e[3]
Place(e) == e[4]
Argument(e) == e[5]
Protected(e) == e[6]
Persistent(e) == e[7]

\* Endpoint.asdict(): the endpoint as a record of the settings document
AsDict(e) ==
    [name |-> e[1], owner |-> e[2], connection_type |-> e[3], place |-> e[4],
     argument |-> e[5], protected |-> e[6], persistent |-> e[7]]

\* Endpoint(**record): the endpoint built from a record of the document
FromDict(d) ==
    Endpoint(d.name, d.owner, d.connection_type, d.place, d.argument,
             d.protected, d.persistent)

AppName == "ardupilot-manager"

\* start_mavlink_manager's default endpoints
GcsLink == Endpoint("GCS Link", AppName, "udpout", "192.168.2.1", GcsPort, TRUE, FALSE)
Mavlink2Rest == Endpoint("MAVLink2Rest", AppName, "udpout", "127.0.0.1", Mavlink2RestPort, TRUE, FALSE)

\* start_navigator's and start_serial's master endpoints
NavigatorMaster == Endpoint("Master", AppName, "udpin", "127.0.0.1", NavigatorMasterPort, TRUE, FALSE)
SerialMaster(device) == Endpoint("Master", AppName, "serial", device, SerialBaudrate, TRUE, FALSE)

\* The endpoints API clients ask for: a persistent one, a volatile one and a
\* protected persistent one.
EpA == Endpoint("A", "user", "udpout", "10.0.0.1", 1, FALSE, TRUE)
EpB == Endpoint("B", "user", "tcp", "10.0.0.2", 2, FALSE, FALSE)
EpP == Endpoint("P", "user", "udpin", "0.0.0.0", 3, TRUE, TRUE)
ApiEndpoints == {EpA, EpB, EpP}

NoEndpoint == <<>>

(***************************************************************************)
(* Sets as Python iterates them.                                           *)
(***************************************************************************)
\* every listing of the finite set S without repetition: the orders in
\* which Python may iterate a set
Listings(S) ==
    {s \in [1..Cardinality(S) -> S] : \A i, j \in 1..Cardinality(S) : s[i] = s[j] => i = j}

(***************************************************************************)
(* The settings document: a mapping with the key "endpoints" (a list of    *)
(* endpoint records, possibly absent) and settings this code never reads.  *)
(***************************************************************************)
Document(endpointList, other) == [endpoints |-> endpointList, settings |-> other]
EmptyDocument(other) == [settings |-> other]

\* what the document holds besides the endpoints
OtherSettings == {"firmware_path"}

\* the documents a settings file written by this program may hold
StoredDocuments ==
    {EmptyDocument(o) : o \in OtherSettings}
    \cup {Document([i \in DOMAIN l |-> AsDict(l[i])], o) :
            l \in UNION {Listings(S) : S \in SUBSET {EpA, EpP}}, o \in OtherSettings}

\* a document whose other keys are not the ones create_settings writes
OpaqueDocuments == {EmptyDocument("firmware_path, frame")}

(***************************************************************************)
(* State.                                                                  *)
(***************************************************************************)
VARIABLES
    proxyEndpoints,   \* mavlink_manager.endpoints(): the proxy's live set
    master,           \* the endpoint given to mavlink_manager.set_master_endpoint
    proxyStarts,      \* how often mavlink_manager.start() was called
    configuration,    \* self.configuration: the working copy of the document
    settingsFile,     \* the document Settings last loaded or saved
    subprocess,       \* self.subprocess: whether the firmware process was spawned
    mpc,              \* where the main thread is (construction, run(), serving)
    boards,           \* run(): what BoardDetector.detect() last returned
    device,           \* the master endpoint start_mavlink_manager is called with
    flow,             \* run(): the start-up flow start_board chose (history)
    emptyRounds,      \* run(): how often detect() returned no board (history)
    warnings,         \* run(): how often "board not detected" was logged (history)
    bootHist,         \* start_mavlink_manager: what its two calls did (history)
    call,             \* per thread: the add_new_endpoints/remove_endpoints call it runs
    hist,             \* per thread: what the running call saw and did (history)
    lastAdd,          \* the request of the add that just returned normally (history)
    taken             \* how many requests that may overlap were taken (history)

vars == <<proxyEndpoints, master, proxyStarts, configuration, settingsFile,
          subprocess, mpc, boards, device, flow, emptyRounds, warnings, bootHist,
          call, hist, lastAdd, taken>>

proxyVars == <<proxyEndpoints, master, proxyStarts>>
storeVars == <<configuration, settingsFile>>
runVars == <<subprocess, boards, device, flow, emptyRounds, warnings>>
callVars == <<call, hist, lastAdd, taken>>

\* The main thread runs the constructor and run(); the API's handlers run on
\* the server's worker threads.
MainThread == "main"
ApiThreads == {"worker1", "worker2"}
Threads == {MainThread} \cup ApiThreads

\* what a failing proxy call raises
ProxyErrors == {"ValueError", "RuntimeError"}

IdleCall == [pc |-> "idle", op |-> "none", todo |-> {}, loaded_endpoints |-> {},
             error |-> "none"]
NoHistory == [request |-> {}, configuration |-> EmptyDocument("firmware_path"),
              settingsFile |-> EmptyDocument("firmware_path"), attempts |-> 0, faults |-> {},
              restartIssued |-> FALSE, repeated |-> FALSE]
NoAdd == [returned |-> FALSE, request |-> {}]
NoBootHistory == [accepted |-> {}, faults |-> {}, rejected |-> {}]

(***************************************************************************)
(* Pure parts of ArduPilotManager.                                         *)
(***************************************************************************)
\* _get_configuration_endpoints
GetConfigurationEndpoints(config) ==
    LET records == IF "endpoints" \in DOMAIN config THEN config["endpoints"] ELSE <<>>
    IN  {FromDict(records[i]) : i \in DOMAIN records}

\* a save that writes the endpoints into a document of defaults
SaveEndpointsToDefaults(config, listing) ==
    Document([i \in DOMAIN listing |-> AsDict(listing[i])], "firmware_path")

\* _save_endpoints_to_configuration, for one iteration order of the set
SaveEndpointsToConfiguration(config, listing) ==
    [k \in DOMAIN config \cup {"endpoints"} |->
        IF k = "endpoints" THEN [i \in DOMAIN listing |-> AsDict(listing[i])]
        ELSE config[k]]

\* a filter that lets every endpoint through
EveryEndpoint(endpoints) == endpoints

\* _update_endpoints' filter: the endpoints to persist
PersistentEndpoints(endpoints) == {e \in endpoints : Persistent(e)}

\* remove_endpoints' filter: the endpoints that may not be removed
ProtectedEndpoints(endpoints) == {e \in endpoints : Protected(e)}

\* a load that gives up when the proxy rejects an endpoint
LoadEndpointsStrictly(config, live, rejected) ==
    IF rejected = {} THEN live \cup GetConfigurationEndpoints(config) ELSE live

\* _load_endpoints with the proxy rejecting the endpoints of `rejected`
LoadEndpoints(config, live, rejected) ==
    live \cup (GetConfigurationEndpoints(config) \ rejected)

(***************************************************************************)
(* The proxy (mavlink_proxy.Manager), from its interface in spec.md.       *)
(***************************************************************************)
ProxyAdd(live, e) == live \cup {e}
ProxyRemove(live, e) == live \ {e}
ProxyClear(live) == {}

(***************************************************************************)
(* Init: the process starts with the settings file an earlier run left (or *)
(* the one create_settings just made) and nothing registered.              *)
(***************************************************************************)
Started(documents) ==
    /\ proxyEndpoints = {}
    /\ master = NoEndpoint
    /\ proxyStarts = 0
    /\ settingsFile \in documents
    /\ configuration = EmptyDocument("firmware_path")
    /\ subprocess = FALSE
    /\ mpc = "construct"
    /\ boards = <<>>
    /\ device = NoEndpoint
    /\ flow = "none"
    /\ emptyRounds = 0
    /\ warnings = 0
    /\ bootHist = NoBootHistory
    /\ call = [t \in Threads |-> IdleCall]
    /\ hist = [t \in Threads |-> NoHistory]
    /\ lastAdd = NoAdd
    /\ taken = 0

Init == Started(StoredDocuments)

\* a first run: create_settings has just made the settings file
FreshInit == Started({EmptyDocument("firmware_path")})

\* a settings file whose other keys another run has changed
OpaqueInit == Started(OpaqueDocuments)

(***************************************************************************)
(* __init__: load the settings, copy them, load the endpoints (each        *)
(* rejected endpoint is logged and skipped).                               *)
(***************************************************************************)
Construct ==
    /\ mpc = "construct"
    /\ configuration' = settingsFile
    /\ \E rejected \in SUBSET GetConfigurationEndpoints(settingsFile) :
          /\ proxyEndpoints' = LoadEndpoints(settingsFile, proxyEndpoints, rejected)
          /\ bootHist' = [NoBootHistory EXCEPT !.rejected = rejected]
    /\ mpc' = "run"
    /\ UNCHANGED <<master, proxyStarts, settingsFile, runVars, callVars>>

(***************************************************************************)
(* add_new_endpoints / remove_endpoints, one step per collaborator call.   *)
(***************************************************************************)
StartHistory(op, request) ==
    [request |-> request, configuration |-> configuration,
     settingsFile |-> settingsFile, attempts |-> 0, faults |-> {},
     restartIssued |-> FALSE,
     repeated |-> op = "add" /\ lastAdd.returned /\ lastAdd.request = request]

\* add_new_endpoints up to its loop: the snapshot of the live set
BeginAdd(t, new_endpoints) ==
    /\ call[t].pc = "idle"
    /\ call' = [call EXCEPT ![t] =
                  [pc |-> IF new_endpoints = {} THEN "update" ELSE "loop",
                   op |-> "add", todo |-> new_endpoints,
                   loaded_endpoints |-> proxyEndpoints, error |-> "none"]]
    /\ hist' = [hist EXCEPT ![t] = StartHistory("add", new_endpoints)]

\* remove_endpoints without lines 176-178: the loop is entered whatever the
\* request holds
BeginRemoveUnchecked(t, endpoints_to_remove) ==
    /\ call[t].pc = "idle"
    /\ call' = [call EXCEPT ![t] =
                  [pc |-> IF endpoints_to_remove = {} THEN "update" ELSE "loop",
                   op |-> "remove", todo |-> endpoints_to_remove,
                   loaded_endpoints |-> proxyEndpoints, error |-> "none"]]
    /\ hist' = [hist EXCEPT ![t] = StartHistory("remove", endpoints_to_remove)]

\* remove_endpoints up to its loop: the snapshot, then the protected check
BeginRemove(t, endpoints_to_remove) ==
    /\ call[t].pc = "idle"
    /\ call' = [call EXCEPT ![t] =
                  IF ProtectedEndpoints(endpoints_to_remove) # {}
                  THEN [pc |-> "done", op |-> "remove", todo |-> endpoints_to_remove,
                        loaded_endpoints |-> proxyEndpoints, error |-> "ValueError"]
                  ELSE [pc |-> IF endpoints_to_remove = {} THEN "update" ELSE "loop",
                        op |-> "remove", todo |-> endpoints_to_remove,
                        loaded_endpoints |-> proxyEndpoints, error |-> "none"]]
    /\ hist' = [hist EXCEPT ![t] = StartHistory("remove", endpoints_to_remove)]

\* where the loop goes once the endpoints of `left` remain
AfterIteration(left) == IF left = {} THEN "update" ELSE "loop"

\* one iteration of the loop whose proxy call succeeds
LoopAccept(t) ==
    /\ call[t].pc = "loop"
    /\ \E e \in call[t].todo :
         /\ proxyEndpoints' = IF call[t].op = "add" THEN ProxyAdd(proxyEndpoints, e)
                              ELSE ProxyRemove(proxyEndpoints, e)
         /\ call' = [call EXCEPT ![t].todo = @ \ {e},
                                 ![t].pc = AfterIteration(call[t].todo \ {e})]
    /\ hist' = [hist EXCEPT ![t].attempts = @ + 1]
    /\ UNCHANGED <<master, proxyStarts, storeVars, mpc, runVars, bootHist, lastAdd, taken>>

\* where the except clause of the loop goes
AfterRejection == "reset_clear"

\* one iteration of the loop whose proxy call raises: on to _reset_endpoints
LoopReject(t) ==
    /\ call[t].pc = "loop"
    /\ \E err \in ProxyErrors :
         call' = [call EXCEPT ![t].pc = AfterRejection, ![t].error = err]
    /\ hist' = [hist EXCEPT ![t].attempts = @ + 1]
    /\ UNCHANGED <<proxyVars, storeVars, mpc, runVars, bootHist, lastAdd, taken>>

\* _reset_endpoints: mavlink_manager.clear_endpoints()
ResetClear(t) ==
    /\ call[t].pc = "reset_clear"
    /\ proxyEndpoints' = ProxyClear(proxyEndpoints)
    /\ call' = [call EXCEPT ![t].pc = "reset_add"]
    /\ UNCHANGED <<master, proxyStarts, storeVars, mpc, runVars, bootHist, hist, lastAdd, taken>>

\* what _reset_endpoints gives back to the proxy
ResetTarget(t) == call[t].loaded_endpoints

\* _reset_endpoints: mavlink_manager.add_endpoints(endpoints) succeeds; the
\* caller then re-raises the loop's error
ResetAdd(t) ==
    /\ call[t].pc = "reset_add"
    /\ proxyEndpoints' = proxyEndpoints \cup ResetTarget(t)
    /\ call' = [call EXCEPT ![t].pc = "done"]
    /\ UNCHANGED <<master, proxyStarts, storeVars, mpc, runVars, bootHist, hist, lastAdd, taken>>

\* _reset_endpoints: mavlink_manager.add_endpoints(endpoints) raises after
\* some of them were added; the error is logged, the loop's error re-raised
ResetAddFails(t) ==
    /\ call[t].pc = "reset_add"
    /\ \E added \in SUBSET ResetTarget(t) :
         /\ added # ResetTarget(t)
         /\ proxyEndpoints' = proxyEndpoints \cup added
    /\ call' = [call EXCEPT ![t].pc = "done"]
    /\ hist' = [hist EXCEPT ![t].faults = @ \cup {"reset"}]
    /\ UNCHANGED <<master, proxyStarts, storeVars, mpc, runVars, bootHist, lastAdd, taken>>

\* _update_endpoints: the persistent endpoints of the live set go into the
\* configuration
UpdateConfiguration(t) ==
    /\ call[t].pc = "update"
    /\ \E listing \in Listings(PersistentEndpoints(proxyEndpoints)) :
         configuration' = SaveEndpointsToConfiguration(configuration, listing)
    /\ call' = [call EXCEPT ![t].pc = "save"]
    /\ UNCHANGED <<proxyVars, settingsFile, mpc, runVars, bootHist, hist, lastAdd, taken>>

\* _update_endpoints: settings.save(self.configuration) succeeds
SaveSettings(t) ==
    /\ call[t].pc = "save"
    /\ settingsFile' = configuration
    /\ call' = [call EXCEPT ![t].pc = "restart"]
    /\ UNCHANGED <<proxyVars, configuration, mpc, runVars, bootHist, hist, lastAdd, taken>>

\* where _update_endpoints' except clause leaves the call: it logs and returns
AfterUpdateError == "done"

\* _update_endpoints: settings.save raises
SaveSettingsFails(t) ==
    /\ call[t].pc = "save"
    /\ call' = [call EXCEPT ![t].pc = AfterUpdateError]
    /\ hist' = [hist EXCEPT ![t].faults = @ \cup {"save"}]
    /\ UNCHANGED <<proxyVars, storeVars, mpc, runVars, bootHist, lastAdd, taken>>

\* _update_endpoints: self.restart() succeeds
Restart(t) ==
    /\ call[t].pc = "restart"
    /\ call' = [call EXCEPT ![t].pc = "done"]
    /\ hist' = [hist EXCEPT ![t].restartIssued = TRUE]
    /\ UNCHANGED <<proxyVars, storeVars, mpc, runVars, bootHist, lastAdd, taken>>

\* a restart whose error reaches the caller of add_new_endpoints
RestartFailsRaising(t) ==
    /\ call[t].pc = "restart"
    /\ call' = [call EXCEPT ![t].pc = "done", ![t].error = "RuntimeError"]
    /\ hist' = [hist EXCEPT ![t].restartIssued = TRUE, ![t].faults = @ \cup {"restart"}]
    /\ UNCHANGED <<proxyVars, storeVars, mpc, runVars, bootHist, lastAdd, taken>>

\* _update_endpoints: self.restart() raises
RestartFails(t) ==
    /\ call[t].pc = "restart"
    /\ call' = [call EXCEPT ![t].pc = AfterUpdateError]
    /\ hist' = [hist EXCEPT ![t].restartIssued = TRUE, ![t].faults = @ \cup {"restart"}]
    /\ UNCHANGED <<proxyVars, storeVars, mpc, runVars, bootHist, lastAdd, taken>>

(***************************************************************************)
(* Board detection (flight_controller_detector.Detector), from spec.md     *)
(* section 3: an ordered enumeration, the lower value the higher priority. *)
(***************************************************************************)
\* Navigator and Serial, and two types start_board does not know: one of
\* higher and one of lower priority than both
BoardTypes == {"Navigator", "Serial", "OtherLow", "OtherHigh"}
BoardValue(type) ==
    CASE type = "OtherLow" -> 0
      [] type = "Navigator" -> 1
      [] type = "Serial" -> 2
      [] OTHER -> 3
\* a serial board comes with its device path; the location of any other
\* board is opaque
SerialDevices == {"/dev/ttyACM0", "/dev/ttyUSB0"}
Candidates ==
    ({"Serial"} \X SerialDevices) \cup ((BoardTypes \ {"Serial"}) \X {"opaque"})
BoardLists == UNION {[1..n -> Candidates] : n \in 0..MaxBoards}

\* x put into the sorted list s, before the first candidate that does not
\* come before it
RECURSIVE Insert(_, _)
Insert(x, s) ==
    IF s = <<>> THEN <<x>>
    ELSE IF BoardValue(x[1]) <= BoardValue(Head(s)[1]) THEN <<x>> \o s
    ELSE <<Head(s)>> \o Insert(x, Tail(s))

\* boards.sort(key=lambda tup: tup[0].value): a stable sort by priority
RECURSIVE SortByPriority(_)
SortByPriority(s) ==
    IF s = <<>> THEN <<>> ELSE Insert(Head(s), SortByPriority(Tail(s)))

\* boards[0] without the sort of line 106
FirstDetected(detected) == detected[1]

\* start_board: the candidate in use, boards[0] after the sort
BoardInUse(detected) == SortByPriority(detected)[1]

(***************************************************************************)
(* run(): the root check and the detection loop.                           *)
(***************************************************************************)
\* check_running_as_root raises unless the effective user is root
CheckRunningAsRoot ==
    /\ mpc = "run"
    /\ \E isRoot \in BOOLEAN : mpc' = IF isRoot THEN "detect" ELSE "aborted"
    /\ UNCHANGED <<proxyVars, storeVars, runVars, bootHist, callVars>>

\* BoardDetector.detect()
Detect ==
    /\ mpc = "detect"
    /\ \E detected \in BoardLists :
         /\ detected = <<>> => emptyRounds < MaxEmptyRounds
         /\ boards' = detected
         /\ emptyRounds' = IF detected = <<>> THEN emptyRounds + 1 ELSE emptyRounds
    /\ mpc' = "start_board"
    /\ UNCHANGED <<proxyVars, storeVars, subprocess, device, flow, warnings,
                   bootHist, callVars>>

\* run() giving up when start_board returns False
AbortWhenNoBoard == "aborted"

\* where run() goes when start_board returns False: it warns, sleeps and
\* detects again
AfterNoBoard == "detect"

\* start_board returning False, instead of raising, for a type it does not
\* know: run() detects again
DispatchRetrying(flight_controller_type) ==
    CASE flight_controller_type = "Navigator" -> "nav_firmware"
      [] flight_controller_type = "Serial" -> "mavlink_gcs"
      [] OTHER -> "detect"

\* where start_board goes with the board in use
Dispatch(flight_controller_type) ==
    CASE flight_controller_type = "Navigator" -> "nav_firmware"
      [] flight_controller_type = "Serial" -> "mavlink_gcs"
      [] OTHER -> "aborted"

\* start_board(boards) and what run() does with its result
StartBoard ==
    /\ mpc = "start_board"
    /\ IF boards = <<>>
       THEN /\ warnings' = warnings + 1
            /\ mpc' = AfterNoBoard
            /\ UNCHANGED <<flow, device>>
       ELSE LET flight_controller_type == BoardInUse(boards)[1]
                place == BoardInUse(boards)[2]
            IN  /\ warnings' = warnings
                /\ mpc' = Dispatch(flight_controller_type)
                /\ flow' = CASE mpc' = "nav_firmware" -> "navigator"
                             [] mpc' = "mavlink_gcs" -> "serial"
                             [] OTHER -> flow
                \* start_serial: the master endpoint of the serial flow
                /\ device' = IF mpc' = "mavlink_gcs" THEN SerialMaster(place) ELSE device
    /\ UNCHANGED <<proxyVars, storeVars, subprocess, boards, emptyRounds, bootHist,
                   callVars>>

(***************************************************************************)
(* start_navigator.                                                        *)
(***************************************************************************)
\* the firmware file is there, or the download yields one that is moved there
NavigatorFirmware ==
    /\ mpc = "nav_firmware"
    /\ mpc' = "nav_selfcheck"
    /\ UNCHANGED <<proxyVars, storeVars, runVars, bootHist, callVars>>

\* the firmware file is missing and the download yields nothing: the assert
\* raises
NavigatorDownloadFails ==
    /\ mpc = "nav_firmware"
    /\ mpc' = "aborted"
    /\ UNCHANGED <<proxyVars, storeVars, runVars, bootHist, callVars>>

\* subprocess.check_output([firmware, "--help"]) returns, or raises
NavigatorSelfCheck ==
    /\ mpc = "nav_selfcheck"
    /\ \E passed \in BOOLEAN : mpc' = IF passed THEN "nav_spawn" ELSE "aborted"
    /\ UNCHANGED <<proxyVars, storeVars, runVars, bootHist, callVars>>

\* a flow that goes on to start_mavlink_manager without the child process
NavigatorSpawnSkipped ==
    /\ mpc = "nav_spawn"
    /\ subprocess' = subprocess
    /\ device' = NavigatorMaster
    /\ mpc' = "mavlink_gcs"
    /\ UNCHANGED <<proxyVars, storeVars, boards, flow, emptyRounds, warnings,
                   bootHist, callVars>>

\* the master endpoint, subprocess.Popen, then start_mavlink_manager
NavigatorSpawn ==
    /\ mpc = "nav_spawn"
    /\ subprocess' = TRUE
    /\ device' = NavigatorMaster
    /\ mpc' = "mavlink_gcs"
    /\ UNCHANGED <<proxyVars, storeVars, boards, flow, emptyRounds, warnings,
                   bootHist, callVars>>

(***************************************************************************)
(* start_mavlink_manager: the two default endpoints inside one try, then   *)
(* the master endpoint and the proxy's start.                              *)
(***************************************************************************)
AddGcsLink ==
    /\ mpc = "mavlink_gcs"
    /\ BeginAdd(MainThread, {GcsLink})
    /\ mpc' = "mavlink_gcs_call"
    /\ UNCHANGED <<proxyVars, storeVars, runVars, bootHist, lastAdd, taken>>

\* what the call that returns leaves in start_mavlink_manager's history: the
\* endpoints the proxy accepted, the collaborator calls that failed
Noted(t) ==
    [accepted |-> bootHist.accepted \cup (hist[t].request \ call[t].todo),
     faults |-> bootHist.faults \cup hist[t].faults,
     rejected |-> {}]

\* where start_mavlink_manager goes when its first call returns or raises
AfterGcsLink(error) == IF error = "none" THEN "mavlink_m2r" ELSE "set_master"

GcsLinkReturns ==
    /\ mpc = "mavlink_gcs_call"
    /\ call[MainThread].pc = "done"
    /\ mpc' = AfterGcsLink(call[MainThread].error)
    /\ call' = [call EXCEPT ![MainThread] = IdleCall]
    /\ hist' = [hist EXCEPT ![MainThread] = NoHistory]
    /\ bootHist' = Noted(MainThread)
    /\ UNCHANGED <<proxyVars, storeVars, runVars, lastAdd, taken>>

AddMavlink2Rest ==
    /\ mpc = "mavlink_m2r"
    /\ BeginAdd(MainThread, {Mavlink2Rest})
    /\ mpc' = "mavlink_m2r_call"
    /\ UNCHANGED <<proxyVars, storeVars, runVars, bootHist, lastAdd, taken>>

\* where start_mavlink_manager goes when its second call returns or raises:
\* the except clause only logs
AfterMavlink2Rest(error) == "set_master"

Mavlink2RestReturns ==
    /\ mpc = "mavlink_m2r_call"
    /\ call[MainThread].pc = "done"
    /\ mpc' = AfterMavlink2Rest(call[MainThread].error)
    /\ call' = [call EXCEPT ![MainThread] = IdleCall]
    /\ hist' = [hist EXCEPT ![MainThread] = NoHistory]
    /\ bootHist' = Noted(MainThread)
    /\ UNCHANGED <<proxyVars, storeVars, runVars, lastAdd, taken>>

\* mavlink_manager.set_master_endpoint(device)
SetMasterEndpoint ==
    /\ mpc = "set_master"
    /\ master' = device
    /\ mpc' = "start"
    /\ UNCHANGED <<proxyEndpoints, proxyStarts, storeVars, runVars, bootHist, callVars>>

\* mavlink_manager.start(); start_board returns True and run() returns: its
\* locals and the history of this start-up end here, the API is served
StartProxy ==
    /\ mpc = "start"
    /\ proxyStarts' = proxyStarts + 1
    /\ mpc' = "serving"
    /\ boards' = <<>>
    /\ device' = NoEndpoint
    /\ flow' = "none"
    /\ emptyRounds' = 0
    /\ warnings' = 0
    /\ bootHist' = NoBootHistory
    /\ UNCHANGED <<proxyEndpoints, master, storeVars, subprocess, callVars>>

(***************************************************************************)
(* The API's handlers (main.py): POST /endpoints and DELETE /endpoints.    *)
(* The server is started after run() returned.  A request goes to the      *)
(* first idle worker; under Spec a handler is entered only while no other  *)
(* call is running.                                                        *)
(***************************************************************************)
Alone(t) == \A u \in Threads \ {t} : call[u].pc = "idle"
FirstIdle(t) == t = "worker1" \/ call["worker1"].pc # "idle"

\* the status the handler answers with: the decorator's status_code when the
\* call returns, 400 from the except ValueError clause, and the server's 500
\* for an exception the handler does not catch
ResponseStatus(op, error) ==
    CASE error = "none" /\ op = "add" -> 201
      [] error = "none" /\ op = "remove" -> 200
      [] error = "ValueError" -> 400
      [] OTHER -> 500

\* create_endpoints calls autopilot.add_new_endpoints(endpoints)
CreateEndpoints(t) ==
    /\ mpc = "serving"
    /\ FirstIdle(t)
    /\ Alone(t)
    /\ \E endpoints \in SUBSET ApiEndpoints : BeginAdd(t, endpoints)
    /\ lastAdd' = NoAdd
    /\ UNCHANGED <<proxyVars, storeVars, mpc, runVars, bootHist, taken>>

\* remove_endpoints calls autopilot.remove_endpoints(endpoints)
RemoveEndpoints(t) ==
    /\ mpc = "serving"
    /\ FirstIdle(t)
    /\ Alone(t)
    /\ \E endpoints \in SUBSET ApiEndpoints : BeginRemove(t, endpoints)
    /\ lastAdd' = NoAdd
    /\ UNCHANGED <<proxyVars, storeVars, mpc, runVars, bootHist, taken>>

\* the handler returns
HandlerReturns(t) ==
    /\ call[t].pc = "done"
    /\ call' = [call EXCEPT ![t] = IdleCall]
    /\ hist' = [hist EXCEPT ![t] = NoHistory]
    /\ lastAdd' = IF call[t].op = "add" /\ call[t].error = "none"
                  THEN [returned |-> TRUE, request |-> hist[t].request]
                  ELSE NoAdd
    /\ UNCHANGED <<proxyVars, storeVars, mpc, runVars, bootHist, taken>>

(***************************************************************************)
(* The handlers as the server runs them: each request on a worker thread   *)
(* of its own, with no lock in the handlers or in ArduPilotManager, so a   *)
(* handler is entered whatever the other worker is doing.                  *)
(***************************************************************************)
\* the requests made while another one may be running: one endpoint, or two
OverlappingRequests == {{EpA}, {EpA, EpB}}

\* POST /endpoints while another request may be running
CreateEndpointsMeanwhile(t) ==
    /\ mpc = "serving"
    /\ FirstIdle(t)
    /\ \E endpoints \in OverlappingRequests : BeginAdd(t, endpoints)
    /\ lastAdd' = NoAdd
    /\ taken < MaxOverlapping
    /\ taken' = taken + 1
    /\ UNCHANGED <<proxyVars, storeVars, mpc, runVars, bootHist>>

\* DELETE /endpoints while another request may be running
RemoveEndpointsMeanwhile(t) ==
    /\ mpc = "serving"
    /\ FirstIdle(t)
    /\ \E endpoints \in OverlappingRequests : BeginRemove(t, endpoints)
    /\ lastAdd' = NoAdd
    /\ taken < MaxOverlapping
    /\ taken' = taken + 1
    /\ UNCHANGED <<proxyVars, storeVars, mpc, runVars, bootHist>>

\* GET /endpoints: get_available_endpoints calls autopilot.get_endpoints();
\* what it read is kept, as a call's snapshot is, until the handler returns
GetAvailableEndpoints(t) ==
    /\ mpc = "serving"
    /\ FirstIdle(t)
    /\ call[t].pc = "idle"
    /\ call' = [call EXCEPT ![t] =
                  [pc |-> "done", op |-> "get", todo |-> {},
                   loaded_endpoints |-> proxyEndpoints, error |-> "none"]]
    /\ taken < MaxOverlapping
    /\ taken' = taken + 1
    /\ UNCHANGED <<proxyVars, storeVars, mpc, runVars, bootHist, hist, lastAdd>>

(***************************************************************************)
(* The specification.                                                      *)
(***************************************************************************)
CallStep(t) ==
    \/ LoopAccept(t)
    \/ LoopReject(t)
    \/ ResetClear(t)
    \/ ResetAdd(t)
    \/ ResetAddFails(t)
    \/ UpdateConfiguration(t)
    \/ SaveSettings(t)
    \/ SaveSettingsFails(t)
    \/ Restart(t)
    \/ RestartFails(t)

MainStep ==
    \/ Construct
    \/ CheckRunningAsRoot
    \/ Detect
    \/ StartBoard
    \/ NavigatorFirmware
    \/ NavigatorDownloadFails
    \/ NavigatorSelfCheck
    \/ NavigatorSpawn
    \/ AddGcsLink
    \/ GcsLinkReturns
    \/ AddMavlink2Rest
    \/ Mavlink2RestReturns
    \/ SetMasterEndpoint
    \/ StartProxy
    \/ CallStep(MainThread)

ApiStep(t) ==
    \/ CreateEndpoints(t)
    \/ RemoveEndpoints(t)
    \/ CallStep(t)
    \/ HandlerReturns(t)

Next == MainStep \/ \E t \in ApiThreads : ApiStep(t)

Spec == Init /\ [][Next]_vars

\* The process with overlapping requests.
OverlappingStep(t) ==
    \/ CreateEndpointsMeanwhile(t)
    \/ RemoveEndpointsMeanwhile(t)
    \/ GetAvailableEndpoints(t)
    \/ CallStep(t)
    \/ HandlerReturns(t)

OverlappingNext == MainStep \/ \E t \in ApiThreads : OverlappingStep(t)

\* the API's calls one at a time, over the settings files of OpaqueInit
OpaqueSpec == OpaqueInit /\ [][Next]_vars

OverlappingSpec == FreshInit /\ [][OverlappingNext]_vars

\* The start-up alone: the API is served only after run() returned, and the
\* main thread, the only one there is, keeps running.
StartupSpec == Init /\ [][MainStep]_vars /\ WF_vars(MainStep)

(***************************************************************************)
(* Properties of add_new_endpoints / remove_endpoints.  A call that has    *)
(* returned or raised stands at "done" with what it found when it began:   *)
(* call[t].loaded_endpoints, hist[t].configuration, hist[t].settingsFile.  *)
(***************************************************************************)
\* the call of t raised the error of a proxy call of its loop
RaisedFromLoop(t, op) ==
    /\ call[t].pc = "done"
    /\ call[t].op = op
    /\ call[t].error # "none"
    /\ hist[t].attempts > 0

\* the live set is the one the call found, the configuration and the
\* settings file are untouched, no restart was asked for
RolledBack(t) ==
    /\ proxyEndpoints = call[t].loaded_endpoints
    /\ configuration = hist[t].configuration
    /\ settingsFile = hist[t].settingsFile
    /\ ~hist[t].restartIssued

\* the three stores after a completed call: equal if it returned normally,
\* as the call found them if it raised
Consistent(t) ==
    \/ /\ call[t].error = "none"
       /\ {e \in proxyEndpoints : Persistent(e)} = GetConfigurationEndpoints(configuration)
       /\ GetConfigurationEndpoints(configuration) = GetConfigurationEndpoints(settingsFile)
    \/ /\ call[t].error # "none"
       /\ proxyEndpoints = call[t].loaded_endpoints
       /\ configuration = hist[t].configuration
       /\ settingsFile = hist[t].settingsFile

\* the add of t returned normally
AddReturned(t) ==
    /\ call[t].pc = "done"
    /\ call[t].op = "add"
    /\ call[t].error = "none"

\* C1: atomic add under partial failure. When add_new_endpoints raises
\* because the proxy refused one of the requested endpoints, after any
\* number of them was accepted, the live set is exactly the set the call
\* found, the configuration in memory and on disk is unmodified and no
\* restart was issued.
C1_AtomicAdd ==
    \A t \in Threads : RaisedFromLoop(t, "add") => RolledBack(t)

\* What the code ensures of C1: the same, for the calls whose rollback
\* (clear, then add the snapshot back) did not itself fail.
AtomicAddWhenRollbackWorks ==
    \A t \in Threads :
        (RaisedFromLoop(t, "add") /\ "reset" \notin hist[t].faults) => RolledBack(t)

\* C2: protected removal is all-or-nothing. A remove_endpoints call whose
\* request holds a protected endpoint raises the validation error before
\* any removal is asked of the proxy, and the live set, the configuration
\* in memory and the one on disk are what they were before the call.
C2_ProtectedRemoval ==
    \A t \in Threads :
        (call[t].op = "remove" /\ \E e \in hist[t].request : Protected(e)) =>
            /\ call[t].pc = "done"
            /\ call[t].error = "ValueError"
            /\ hist[t].attempts = 0
            /\ RolledBack(t)

\* a request with a protected and an unprotected endpoint, both live, was
\* rejected
C2_MixedRequestRejected ==
    \E t \in ApiThreads :
        /\ call[t].op = "remove"
        /\ call[t].pc = "done"
        /\ hist[t].request = {EpA, EpP}
        /\ {EpA, EpP} \subseteq proxyEndpoints

\* C3: three-way consistency. When a call has completed, either it returned
\* normally and the persistent endpoints of the live set, the endpoints of
\* the configuration in memory and those of the settings file are equal,
\* or it raised and all three are what they were before the call. Stated
\* for the calls whose rollback did not itself fail, so that only the
\* commit step (configuration update, save, restart) decides it.
C3_ThreeWayConsistency ==
    \A t \in Threads :
        (call[t].pc = "done" /\ "reset" \notin hist[t].faults) => Consistent(t)

\* What the code ensures of C3: the same, for the calls whose save did not
\* fail either.
ConsistentWhenSaveWorks ==
    \A t \in Threads :
        (call[t].pc = "done" /\ hist[t].faults \cap {"reset", "save"} = {}) =>
            Consistent(t)

\* C4: atomic remove under partial failure. When the proxy refuses to
\* remove an endpoint of a request without protected endpoints, after any
\* number of them was removed, no further endpoint is attempted, the
\* proxy's error is raised, the live set is exactly the set the call found,
\* the configuration in memory and on disk is unmodified and no restart
\* was issued.
C4_AtomicRemove ==
    \A t \in Threads :
        (RaisedFromLoop(t, "remove") /\ \A e \in hist[t].request : ~Protected(e)) =>
            /\ hist[t].attempts = Cardinality(hist[t].request \ call[t].todo) + 1
            /\ call[t].error \in ProxyErrors
            /\ RolledBack(t)

\* What the code ensures of C4: the same, for the calls whose rollback did
\* not itself fail.
AtomicRemoveWhenRollbackWorks ==
    \A t \in Threads :
        (/\ RaisedFromLoop(t, "remove")
         /\ \A e \in hist[t].request : ~Protected(e)
         /\ "reset" \notin hist[t].faults) =>
            /\ hist[t].attempts = Cardinality(hist[t].request \ call[t].todo) + 1
            /\ call[t].error \in ProxyErrors
            /\ RolledBack(t)

\* C5: idempotent add. When add_new_endpoints(N) returned normally and is
\* called again with the same N and returns normally, the second call
\* leaves the live set and the endpoints of the settings file as the first
\* call left them.
C5_IdempotentAdd ==
    \A t \in Threads :
        (AddReturned(t) /\ hist[t].repeated) =>
            /\ proxyEndpoints = call[t].loaded_endpoints
            /\ GetConfigurationEndpoints(settingsFile)
                  = GetConfigurationEndpoints(hist[t].settingsFile)

\* What the code ensures of C5: the live set is the same, and so are the
\* endpoints of the settings file when the first call's save did not fail,
\* that is when the second call found the file equal to the configuration.
IdempotentAddWhenSaved ==
    \A t \in Threads :
        (AddReturned(t) /\ hist[t].repeated) =>
            /\ proxyEndpoints = call[t].loaded_endpoints
            /\ hist[t].settingsFile = hist[t].configuration =>
                  GetConfigurationEndpoints(settingsFile)
                    = GetConfigurationEndpoints(hist[t].settingsFile)

\* C6: persistence round trip. After an add_new_endpoints call that
\* returned normally and whose request holds a persistent endpoint, loading
\* the endpoints of the saved document into an empty proxy gives the
\* persistent endpoints that are live at the end of the call.
C6_PersistenceRoundTrip ==
    \A t \in Threads :
        (AddReturned(t) /\ \E e \in hist[t].request : Persistent(e)) =>
            LoadEndpoints(settingsFile, {}, {}) = {e \in proxyEndpoints : Persistent(e)}

\* What the code ensures of C6: the same, for the calls whose save did not
\* fail.
RoundTripWhenSaved ==
    \A t \in Threads :
        (/\ AddReturned(t)
         /\ "save" \notin hist[t].faults
         /\ \E e \in hist[t].request : Persistent(e)) =>
            LoadEndpoints(settingsFile, {}, {}) = {e \in proxyEndpoints : Persistent(e)}

(***************************************************************************)
(* Properties of run().  From start_board on, and until the proxy is       *)
(* started, `boards` is the detection result start_board was given, in the *)
(* order the detector gave it.                                             *)
(***************************************************************************)
\* the detection result is in hand and start_board has dealt with it
BoardHandled == boards # <<>> /\ mpc # "start_board"

\* the lowest enum value among the candidates of the detection result
LowestValue ==
    CHOOSE v \in {BoardValue(boards[i][1]) : i \in DOMAIN boards} :
        \A j \in DOMAIN boards : v <= BoardValue(boards[j][1])

\* C7: board priority. For every non-empty detection result start_board
\* takes the candidate whose type has the lowest enum value, whatever the
\* order of the candidates: with a Navigator of lowest value the navigator
\* flow is run and no serial master endpoint is made, with a Serial of
\* lowest value the serial flow is run on the device of a Serial candidate.
C7_BoardPriority ==
    BoardHandled =>
        /\ LowestValue = BoardValue("Navigator") =>
              /\ flow = "navigator"
              /\ device = NoEndpoint \/ ConnectionType(device) = "udpin"
        /\ LowestValue = BoardValue("Serial") =>
              /\ flow = "serial"
              /\ \E i \in DOMAIN boards :
                    /\ boards[i][1] = "Serial"
                    /\ device # NoEndpoint
                    /\ ConnectionType(device) = "serial"
                    /\ Place(device) = boards[i][2]
        /\ LowestValue \notin {BoardValue("Navigator"), BoardValue("Serial")} =>
              flow = "none"

\* the detector listed a Serial board before a Navigator and the navigator
\* flow has spawned the firmware
C7_NavigatorAfterSerial ==
    /\ boards = <<<<"Serial", "/dev/ttyACM0">>, <<"Navigator", "opaque">>>>
    /\ flow = "navigator"
    /\ subprocess

\* what C8 says of every state of run()
DetectionRetrySafety ==
    \* one warning for each empty result start_board has dealt with
    /\ warnings = IF mpc = "start_board" /\ boards = <<>> THEN emptyRounds - 1
                  ELSE emptyRounds
    \* no master endpoint, no proxy start while detecting
    /\ mpc \in {"detect", "start_board"} => master = NoEndpoint /\ proxyStarts = 0
    \* an empty result never ends run()
    /\ (mpc = "aborted" /\ boards = <<>>) => emptyRounds = 0
    \* the proxy is started once, and then run() has returned
    /\ proxyStarts = IF mpc = "serving" THEN 1 ELSE 0
    \* the serial flow starts the proxy on the detected device
    /\ (mpc = "start" /\ flow = "serial") =>
          /\ Name(master) = "Master"
          /\ Protected(master)
          /\ ConnectionType(master) = "serial"
          /\ Argument(master) = 115200
          /\ \E i \in DOMAIN boards : boards[i] = <<"Serial", Place(master)>>

\* C8: detection retry loop. After n empty detection results and a
\* non-empty one run() has logged exactly n warnings, has set no master
\* endpoint and started no proxy during the empty rounds, is never ended by
\* an empty result, and then runs the flow of the board and starts the proxy
\* exactly once, for a Serial board at device p with the protected Master
\* endpoint serial:p:115200. And, the main thread being scheduled, the
\* serial flow always reaches the started proxy, the navigator flow reaches
\* it unless the firmware download or self-check fails.
C8_DetectionRetry ==
    /\ []DetectionRetrySafety
    /\ (flow = "serial") ~> (mpc = "serving")
    /\ (flow = "navigator") ~> (mpc = "serving" \/ mpc = "aborted")

\* two empty results, then a Serial board: the master endpoint is set and
\* the proxy is about to be started
C8_SerialAfterTwoEmptyRounds ==
    /\ mpc = "start"
    /\ flow = "serial"
    /\ warnings = 2
    /\ Place(master) = "/dev/ttyUSB0"

\* C9: an unknown board type is fatal. When the candidate of highest
\* priority has a type other than Navigator and Serial, start_board raises:
\* run() is over without another detection, no master endpoint is made or
\* set, no firmware process is spawned and the proxy is not started.
C9_UnknownBoardFatal ==
    (BoardHandled /\ LowestValue \notin {BoardValue("Navigator"), BoardValue("Serial")}) =>
        /\ mpc = "aborted"
        /\ flow = "none"
        /\ device = NoEndpoint
        /\ master = NoEndpoint
        /\ ~subprocess
        /\ proxyStarts = 0

\* an unknown type of higher priority than the Serial board detected with it
\* ended run(), after an empty round
C9_UnknownBeforeSerial ==
    /\ mpc = "aborted"
    /\ boards = <<<<"Serial", "/dev/ttyACM0">>, <<"OtherLow", "opaque">>>>
    /\ warnings = 1

\* C10: default-endpoint failures do not abort the start-up. Once
\* start_mavlink_manager is called run() is not aborted, whatever its two
\* add_new_endpoints calls do; when the proxy is about to be started the
\* master endpoint is set and every default endpoint the proxy accepted is
\* in the live set.
C10_DefaultEndpointFailures ==
    /\ mpc = "aborted" => device = NoEndpoint
    /\ mpc = "start" =>
          /\ master # NoEndpoint
          /\ master = device
          /\ bootHist.accepted \subseteq proxyEndpoints

\* What the code ensures of C10: the same, unless the rollback of a refused
\* default endpoint itself failed.
DefaultEndpointFailuresWhenRollbackWorks ==
    /\ mpc = "aborted" => device = NoEndpoint
    /\ mpc = "start" =>
          /\ master # NoEndpoint
          /\ master = device
          /\ "reset" \notin bootHist.faults => bootHist.accepted \subseteq proxyEndpoints

(***************************************************************************)
(* Properties of the API's handlers.                                       *)
(***************************************************************************)
\* C11: API error mapping. POST /endpoints answers 201 and DELETE
\* /endpoints answers 200 when the call succeeds; every failure the call
\* raises (the proxy refusing an added endpoint, a removal of a protected
\* endpoint, the proxy refusing a removal) is answered with 400, and GET
\* /endpoints then returns the set that was live before the call.
C11_ApiErrorMapping ==
    \A t \in ApiThreads :
        call[t].pc = "done" =>
            /\ (call[t].error = "none" /\ call[t].op = "add") =>
                  ResponseStatus(call[t].op, call[t].error) = 201
            /\ (call[t].error = "none" /\ call[t].op = "remove") =>
                  ResponseStatus(call[t].op, call[t].error) = 200
            /\ call[t].error # "none" =>
                  /\ ResponseStatus(call[t].op, call[t].error) = 400
                  /\ proxyEndpoints = call[t].loaded_endpoints

\* What the code ensures of C11: the statuses of success, and 400 with the
\* live set unchanged for the errors that are a ValueError and whose
\* rollback, if there was one, did not fail.
ApiErrorMappingOfValueErrors ==
    \A t \in ApiThreads :
        call[t].pc = "done" =>
            /\ (call[t].error = "none" /\ call[t].op = "add") =>
                  ResponseStatus(call[t].op, call[t].error) = 201
            /\ (call[t].error = "none" /\ call[t].op = "remove") =>
                  ResponseStatus(call[t].op, call[t].error) = 200
            /\ (call[t].error = "ValueError" /\ "reset" \notin hist[t].faults) =>
                  /\ ResponseStatus(call[t].op, call[t].error) = 400
                  /\ proxyEndpoints = call[t].loaded_endpoints

(***************************************************************************)
(* Properties of overlapping requests.                                     *)
(***************************************************************************)
\* the thread is inside add_new_endpoints / remove_endpoints: past the
\* snapshot, not yet returned or raised
Mutating(t) ==
    /\ call[t].op \in {"add", "remove"}
    /\ call[t].pc \notin {"idle", "done"}

\* the live set a call leaves when all its proxy calls succeed
Intended(t) ==
    IF call[t].op = "add" THEN call[t].loaded_endpoints \cup hist[t].request
    ELSE call[t].loaded_endpoints \ hist[t].request

\* C12: mutations are linearized. The steps of two add_new_endpoints /
\* remove_endpoints calls of API requests are never interleaved, and a
\* rollback (one that itself did not fail) never undoes what the other
\* call committed: the endpoints of an add that returned stay live, those
\* of a remove that returned stay out.
C12_MutationsLinearized ==
    \A t, u \in ApiThreads :
        t # u =>
            /\ ~(Mutating(t) /\ Mutating(u))
            /\ (/\ RaisedFromLoop(t, call[t].op)
                /\ "reset" \notin hist[t].faults
                /\ call[u].pc = "done"
                /\ call[u].error = "none") =>
                  /\ call[u].op = "add" => hist[u].request \subseteq proxyEndpoints
                  /\ call[u].op = "remove" => hist[u].request \cap proxyEndpoints = {}

\* the second half of C12 alone
RollbackKeepsCommitted ==
    \A t, u \in ApiThreads :
        (/\ t # u
         /\ RaisedFromLoop(t, call[t].op)
         /\ "reset" \notin hist[t].faults
         /\ call[u].pc = "done"
         /\ call[u].error = "none") =>
            /\ call[u].op = "add" => hist[u].request \subseteq proxyEndpoints
            /\ call[u].op = "remove" => hist[u].request \cap proxyEndpoints = {}

\* C13: reads never see a partial mutation. When the first two requests
\* the server takes are a GET and a mutation, what get_endpoints returned
\* to the GET is the live set the mutation found, or the live set it
\* leaves: the one it intends while it runs, the actual one once it has
\* returned or raised.
C13_ReadsNeverPartial ==
    \A r, t \in ApiThreads :
        (/\ taken = 2
         /\ call[r].op = "get"
         /\ call[t].op \in {"add", "remove"}) =>
            \/ call[r].loaded_endpoints = call[t].loaded_endpoints
            \/ call[r].loaded_endpoints = Intended(t)
            \/ call[t].pc = "done" /\ call[r].loaded_endpoints = proxyEndpoints

(***************************************************************************)
(* Properties of the commit step (_update_endpoints).                      *)
(***************************************************************************)
\* the call of t is over and its self.restart() raised
RestartFailed(t) ==
    /\ call[t].pc = "done"
    /\ call[t].op \in {"add", "remove"}
    /\ "restart" \in hist[t].faults

\* C14: restart is best-effort. When every proxy call and the save of an
\* add_new_endpoints / remove_endpoints call succeeded and the restart
\* failed, the call returns without an error, the live set is the one the
\* call was to produce (nothing was rolled back), and the configuration
\* in memory and the saved document hold the persistent endpoints of it.
C14_RestartBestEffort ==
    \A t \in Threads :
        RestartFailed(t) =>
            /\ call[t].error = "none"
            /\ proxyEndpoints = Intended(t)
            /\ GetConfigurationEndpoints(configuration) = {e \in Intended(t) : Persistent(e)}
            /\ settingsFile = configuration

\* a request that adds a new persistent endpoint, restart failed
C14_RestartFailedAfterAdd ==
    \E t \in ApiThreads :
        /\ RestartFailed(t)
        /\ call[t].op = "add"
        /\ \E e \in hist[t].request : Persistent(e) /\ e \notin call[t].loaded_endpoints

\* the keys of a document other than `endpoints`, with their values
OtherKeys(doc) == [k \in DOMAIN doc \ {"endpoints"} |-> doc[k]]

\* C15: opaque settings are preserved. Once the configuration is loaded,
\* its keys other than `endpoints` and those of the saved document are
\* the ones the call in progress or just over found, for every
\* add_new_endpoints / remove_endpoints call, whatever its outcome; the
\* working copy and the saved document agree on them.
C15_OpaqueSettingsPreserved ==
    mpc # "construct" =>
        /\ OtherKeys(configuration) = OtherKeys(settingsFile)
        /\ \A t \in Threads :
              call[t].op \in {"add", "remove"} =>
                  /\ OtherKeys(configuration) = OtherKeys(hist[t].configuration)
                  /\ OtherKeys(settingsFile) = OtherKeys(hist[t].settingsFile)

\* a call saved new endpoints into a document with non-default other keys
C15_SavedBesideOtherKeys ==
    \E t \in ApiThreads :
        /\ call[t].pc = "done"
        /\ call[t].error = "none"
        /\ settingsFile # hist[t].settingsFile
        /\ OtherKeys(settingsFile) = [settings |-> "firmware_path, frame"]

\* every proxy call of t's loop succeeded and _update_endpoints has written
\* the configuration
Committing(t) ==
    /\ call[t].op \in {"add", "remove"}
    /\ call[t].error = "none"
    /\ call[t].pc \in {"save", "restart", "done"}

\* C16: the commit step of a successful mutation. Once every proxy call
\* of the loop succeeded, the endpoints in the configuration are exactly
\* the persistent endpoints of the live set (none that is not persistent,
\* and every persistent one the call found and did not remove); the save
\* comes after that write, so the saved document is either still the one
\* the call found or the written configuration; and the restart is issued
\* only after a save that succeeded.
C16_CommitStep ==
    \A t \in Threads :
        Committing(t) =>
            /\ GetConfigurationEndpoints(configuration) = {e \in proxyEndpoints : Persistent(e)}
            /\ \A e \in call[t].loaded_endpoints :
                  (Persistent(e) /\ ~(call[t].op = "remove" /\ e \in hist[t].request)) =>
                      e \in GetConfigurationEndpoints(configuration)
            /\ settingsFile \in {hist[t].settingsFile, configuration}
            /\ call[t].pc = "save" => settingsFile = hist[t].settingsFile /\ ~hist[t].restartIssued
            /\ call[t].pc = "restart" => settingsFile = configuration /\ ~hist[t].restartIssued
            /\ hist[t].restartIssued => settingsFile = configuration /\ "save" \notin hist[t].faults
            /\ "save" \in hist[t].faults => ~hist[t].restartIssued

\* a request that added a persistent and a volatile endpoint was saved and
\* the restart issued
C16_CommittedMixedAdd ==
    \E t \in ApiThreads :
        /\ call[t].pc = "done"
        /\ call[t].op = "add"
        /\ call[t].error = "none"
        /\ hist[t].restartIssued
        /\ hist[t].request = {EpA, EpB}
        /\ call[t].loaded_endpoints \cap {EpA, EpB} = {}

(***************************************************************************)
(* Properties of the construction (__init__, _load_endpoints).             *)
(***************************************************************************)
\* C17: best-effort configuration bootstrap. When __init__ is over, with
\* the proxy having rejected the endpoints of bootHist.rejected, every
\* other endpoint of the loaded configuration is in the live set and none
\* from elsewhere; the configuration is the loaded document, the settings
\* file was not written, no restart was asked for and run() goes on.
C17_BestEffortBootstrap ==
    mpc = "run" =>
        /\ GetConfigurationEndpoints(configuration) \ bootHist.rejected \subseteq proxyEndpoints
        /\ proxyEndpoints \subseteq GetConfigurationEndpoints(configuration)
        /\ configuration = settingsFile
        /\ settingsFile \in StoredDocuments
        /\ \A t \in Threads : ~hist[t].restartIssued /\ call[t] = IdleCall

\* the proxy rejected one of two stored endpoints and took the other
C17_LoadedAroundRejection ==
    /\ mpc = "run"
    /\ bootHist.rejected # {}
    /\ proxyEndpoints # {}
    /\ bootHist.rejected \cup proxyEndpoints = {EpA, EpP}

(***************************************************************************)
(* Properties of the start-up flows.                                       *)
(***************************************************************************)
\* start_navigator before its Popen, or given up
BeforeSpawn == mpc \in {"nav_firmware", "nav_selfcheck", "nav_spawn", "aborted"}

\* C18: NavigatorFlow ordering and fail-fast. In the Navigator flow, up
\* to the self-check's end and after a failed download or self-check no
\* child process is spawned, no default endpoint is registered, no Master
\* endpoint is set and the proxy is not started; whatever comes later
\* (registering the default endpoints, the Master endpoint, the start)
\* finds the child process spawned. The Master endpoint of a spawned
\* firmware is a protected udp-in endpoint on the loopback address.
C18_NavigatorFlow ==
    /\ (flow = "navigator" /\ BeforeSpawn) =>
          /\ ~subprocess
          /\ master = NoEndpoint
          /\ proxyStarts = 0
          /\ call[MainThread] = IdleCall
          /\ {GcsLink, Mavlink2Rest} \cap proxyEndpoints = {}
    /\ (flow = "navigator" /\ ~BeforeSpawn) => subprocess
    /\ (subprocess /\ master # NoEndpoint) =>
          /\ Protected(master)
          /\ ConnectionType(master) = "udpin"
          /\ Place(master) = "127.0.0.1"

\* the Navigator flow went through: the proxy runs beside the firmware
C18_NavigatorStarted ==
    /\ subprocess
    /\ master = NavigatorMaster
    /\ proxyStarts = 1
    /\ mpc = "serving"

(***************************************************************************)
(* Properties of the protected endpoints and of the proxy's lifecycle.     *)
(***************************************************************************)
\* C19: protected endpoints are stable. When an add_new_endpoints or
\* remove_endpoints call is over (returned, rejected, or failed and rolled
\* back, the rollback's own failure included), every protected endpoint
\* that was in the live set when the call began is still in it.
C19_ProtectedStable ==
    \A t \in Threads :
        (call[t].pc = "done" /\ call[t].op \in {"add", "remove"}) =>
            \A e \in call[t].loaded_endpoints : Protected(e) => e \in proxyEndpoints

\* the same while every step of the rollback succeeds
ProtectedStableWhenRollbackWorks ==
    \A t \in Threads :
        (/\ call[t].pc = "done"
         /\ call[t].op \in {"add", "remove"}
         /\ "reset" \notin hist[t].faults) =>
            \A e \in call[t].loaded_endpoints : Protected(e) => e \in proxyEndpoints

\* C20: proxy lifecycle ordering. No call has asked the proxy to restart
\* before mavlink_manager.start() was called; the Master endpoint is set
\* when start is called; start is called once, and the API is served after
\* exactly one start; no API request's add or remove runs before start.
C20_ProxyLifecycle ==
    /\ \A t \in Threads : hist[t].restartIssued => proxyStarts > 0
    /\ proxyStarts > 0 => master # NoEndpoint
    /\ proxyStarts <= 1
    /\ mpc = "serving" => proxyStarts = 1
    /\ \A t \in ApiThreads : call[t] # IdleCall => proxyStarts > 0

\* the same without the restarts asked for by start_mavlink_manager's own
\* add_new_endpoints calls
LifecycleOfStartAndApi ==
    /\ \A t \in ApiThreads : hist[t].restartIssued => proxyStarts > 0
    /\ proxyStarts > 0 => master # NoEndpoint
    /\ proxyStarts <= 1
    /\ mpc = "serving" => proxyStarts = 1
    /\ \A t \in ApiThreads : call[t] # IdleCall => proxyStarts > 0

=============================================================================
